---- MODULE Spec2Model ----
(***************************************************************************)
(* Model of the recommendation parser of cis_benchmark_converter.py.       *)
(* Lines are strings; the regular expressions and the string methods the   *)
(* parser uses are computed character by character.  Indices are 0-based   *)
(* as in the source: the line at index i of a list is lines[i + 1].        *)
(* A value the code computes once and uses several times is bound once:    *)
(* CHOOSE r \in {F(v) : v \in {e}} : TRUE is F(e).                          *)
(***************************************************************************)
EXTENDS Integers, Sequences, FiniteSets, TLC

VARIABLES lines, current_index, current_recommendation, recommendations, pc, result,
          pdf, start_page, output_format, title, version, stage, error, written

\* the variables of main: the document and the arguments, the title and the
\* version read from the first page, the position in main, the exception main
\* ended with, and what was written to the output file
mainvars == <<pdf, start_page, output_format, title, version, stage, error, written>>

vars == <<lines, current_index, current_recommendation, recommendations, pc, result,
          pdf, start_page, output_format, title, version, stage, error, written>>

(***************************************************************************)
(* Strings                                                                 *)
(***************************************************************************)
Char(s, i) == SubSeq(s, i, i)

StartsWith(s, p) == Len(p) <= Len(s) /\ SubSeq(s, 1, Len(p)) = p

EndsWith(s, p) == Len(p) <= Len(s) /\ SubSeq(s, Len(s) - Len(p) + 1, Len(s)) = p

Contains(s, p) == \E i \in 1..(Len(s) - Len(p) + 1) : SubSeq(s, i, i + Len(p) - 1) = p

Min(a, b) == IF a < b THEN a ELSE b

Digits == {"0", "1", "2", "3", "4", "5", "6", "7", "8", "9"}

Whitespace == {" ", "\t"}

UpperLetters ==
    <<"A", "B", "C", "D", "E", "F", "G", "H", "I", "J", "K", "L", "M",
      "N", "O", "P", "Q", "R", "S", "T", "U", "V", "W", "X", "Y", "Z">>

LowerLetters ==
    <<"a", "b", "c", "d", "e", "f", "g", "h", "i", "j", "k", "l", "m",
      "n", "o", "p", "q", "r", "s", "t", "u", "v", "w", "x", "y", "z">>

Range(f) == {f[i] : i \in DOMAIN f}

WordChars == Digits \cup Range(UpperLetters) \cup Range(LowerLetters) \cup {"_"}

LowerChar(c) ==
    IF c \in Range(UpperLetters)
    THEN LowerLetters[CHOOSE i \in DOMAIN UpperLetters : UpperLetters[i] = c]
    ELSE c

\* the characters a..b of s in lower case, by halves
RECURSIVE LowerRange(_, _, _)
LowerRange(s, a, b) ==
    IF a > b THEN ""
    ELSE IF a = b THEN LowerChar(Char(s, a))
    ELSE LowerRange(s, a, (a + b) \div 2) \o LowerRange(s, (a + b) \div 2 + 1, b)

\* str.lower()
lower(s) == LowerRange(s, 1, Len(s))

\* str.strip()
strip(s) ==
    LET keep == {i \in 1..Len(s) : Char(s, i) \notin Whitespace}
    IN IF keep = {} THEN ""
       ELSE SubSeq(s, CHOOSE i \in keep : \A j \in keep : i <= j,
                      CHOOSE i \in keep : \A j \in keep : i >= j)

\* index after the longest run of digits (\d+) starting at index i
RECURSIVE SkipDigits(_, _)
SkipDigits(s, i) ==
    IF i <= Len(s) /\ Char(s, i) \in Digits THEN SkipDigits(s, i + 1) ELSE i

\* index after the longest run of whitespace (\s*) starting at index i
RECURSIVE SkipSpaces(_, _)
SkipSpaces(s, i) ==
    IF i <= Len(s) /\ Char(s, i) \in Whitespace THEN SkipSpaces(s, i + 1) ELSE i

\* ' '.join(parts)
RECURSIVE JoinFrom(_, _)
JoinFrom(parts, i) ==
    IF i > Len(parts) THEN ""
    ELSE IF i = Len(parts) THEN parts[i]
    ELSE parts[i] \o " " \o JoinFrom(parts, i + 1)

Join(parts) == JoinFrom(parts, 1)

(***************************************************************************)
(* Global constants and regular expressions                                *)
(***************************************************************************)
\* (?:\.\d+)* : index after the last ".digits" group starting at index i
RECURSIVE SkipDotGroups(_, _)
SkipDotGroups(s, i) ==
    IF i <= Len(s) /\ Char(s, i) = "." /\ SkipDigits(s, i + 1) > i + 1
    THEN SkipDotGroups(s, SkipDigits(s, i + 1))
    ELSE i

\* \.\d+(?:\.\d+)* after the first digits, which end before index a
NumberTail(s, a) ==
    IF a > 1 /\ a <= Len(s) /\ Char(s, a) = "." /\ SkipDigits(s, a + 1) > a + 1
    THEN SkipDotGroups(s, SkipDigits(s, a + 1))
    ELSE 0

\* ^(\d+\.\d+(?:\.\d+)*) : index after group 1, or 0 when the pattern fails
NumberEnd(s) == CHOOSE e \in {NumberTail(s, a) : a \in {SkipDigits(s, 1)}} : TRUE

\* (\(L\d+\))? at index p, its digits ending before index d: index of ")", or 0
LevelClose(s, p, d) ==
    IF /\ p + 1 <= Len(s)
       /\ SubSeq(s, p, p + 1) = "(L"
       /\ d > p + 2
       /\ d <= Len(s)
       /\ Char(s, d) = ")"
    THEN d
    ELSE 0

\* group 1 takes one character too many
TitleGroupsLongNumber(s, e, p, c) ==
    [matched |-> TRUE,
     g1 |-> SubSeq(s, 1, Min(e, Len(s))),
     g2 |-> IF c > 0 THEN SubSeq(s, p, c) ELSE "",
     g3 |-> SubSeq(s, IF c > 0 THEN SkipSpaces(s, c + 1) ELSE p, Len(s))]

\* the groups, given the end e of group 1, the start p of group 2 and its last
\* index c (0 when the level tag is absent)
TitleGroups(s, e, p, c) ==
    [matched |-> TRUE,
     g1 |-> SubSeq(s, 1, e - 1),
     g2 |-> IF c > 0 THEN SubSeq(s, p, c) ELSE "",
     g3 |-> SubSeq(s, IF c > 0 THEN SkipSpaces(s, c + 1) ELSE p, Len(s))]

\* \s*(\(L\d+\))?\s*(.*) from index p on
TitleRest(s, e, p) ==
    CHOOSE m \in
        {TitleGroups(s, e, p, c) :
            c \in {LevelClose(s, p, d) : d \in {SkipDigits(s, p + 2)}}} : TRUE

TitleFrom(s, e) ==
    IF e = 0
    THEN [matched |-> FALSE, g1 |-> "", g2 |-> "", g3 |-> ""]
    ELSE CHOOSE m \in {TitleRest(s, e, p) : p \in {SkipSpaces(s, e)}} : TRUE

\* TITLE_PATTERN.match(s): whether it matched, and groups 1, 2 (or ''), 3
TITLE_PATTERN(s) == CHOOSE m \in {TitleFrom(s, e) : e \in {NumberEnd(s)}} : TRUE

\* \bPage\s+\d+\b at index i, its whitespace ending before sp and its digits
\* before d: index after the match, or 0
PageMatch(s, i, sp, d) ==
    IF /\ (i = 1 \/ Char(s, i - 1) \notin WordChars)
       /\ i + 3 <= Len(s)
       /\ lower(SubSeq(s, i, i + 3)) = "page"
       /\ sp > i + 4
       /\ d > sp
       /\ (d > Len(s) \/ Char(s, d) \notin WordChars)
    THEN d
    ELSE 0

PageDigits(s, i, sp) == CHOOSE e \in {PageMatch(s, i, sp, d) : d \in {SkipDigits(s, sp)}} : TRUE

\* PAGE_NUMBER_PATTERN, anchored at index i: index after the match, or 0
PAGE_NUMBER_PATTERN(s, i) ==
    CHOOSE e \in {PageDigits(s, i, sp) : sp \in {SkipSpaces(s, i + 4)}} : TRUE

SECTIONS_WITHOUT_CIS ==
    <<"Profile Applicability:", "Description:", "Rationale:", "Impact:",
      "Audit:", "Remediation:", "Default Value:", "References:",
      "Additional Information:">>

\* any(line.startswith(sec) for sec in SECTIONS_WITHOUT_CIS)
StartsWithSection(line) ==
    \E k \in DOMAIN SECTIONS_WITHOUT_CIS : StartsWith(line, SECTIONS_WITHOUT_CIS[k])

\* the indices from i on at which PAGE_NUMBER_PATTERN matches
MatchStarts(s, i) == {j \in i..Len(s) : PAGE_NUMBER_PATTERN(s, j) > 0}

Least(S) == IF S = {} THEN 0 ELSE CHOOSE j \in S : \A k \in S : j <= k

\* the start of the leftmost match from index i on, or 0 when there is none
NextMatch(s, i) == CHOOSE j \in {Least(S) : S \in {MatchStarts(s, i)}} : TRUE

\* PAGE_NUMBER_PATTERN.sub('', s) from index i on; j is the start of the
\* leftmost match from i on: the text before it is kept, the match is dropped
RECURSIVE RemoveFrom(_, _)
RECURSIVE RemoveAt(_, _, _)
RemoveAt(s, i, j) ==
    IF j = 0 THEN SubSeq(s, i, Len(s))
    ELSE SubSeq(s, i, j - 1) \o RemoveFrom(s, PAGE_NUMBER_PATTERN(s, j))

RemoveFrom(s, i) ==
    IF i > Len(s) THEN ""
    ELSE CHOOSE t \in {RemoveAt(s, i, j) : j \in {NextMatch(s, i)}} : TRUE

remove_page_numbers(text) == RemoveFrom(text, 1)

(***************************************************************************)
(* find_profile_applicability                                              *)
(***************************************************************************)
DefaultMaxDepth == 10

RECURSIVE FindFrom(_, _, _)
RECURSIVE FindAt(_, _, _, _)
\* a section label does not end the search
FindAtThroughSections(ls, i, stop, line) ==
    IF StartsWith(line, "Profile Applicability:") THEN TRUE
    ELSE IF TITLE_PATTERN(line).matched THEN FALSE
    ELSE FindFrom(ls, i + 1, stop)

\* the body of the for loop at index i, where `line` is lines[i].strip()
FindAt(ls, i, stop, line) ==
    IF StartsWith(line, "Profile Applicability:") THEN TRUE
    ELSE IF TITLE_PATTERN(line).matched \/ StartsWithSection(line) THEN FALSE
    ELSE FindFrom(ls, i + 1, stop)

\* the for loop over range(i, stop)
FindFrom(ls, i, stop) ==
    IF i >= stop THEN FALSE
    ELSE \E line \in {strip(ls[i + 1])} : FindAt(ls, i, stop, line)

find_profile_applicability(ls, start_index, max_depth) ==
    FindFrom(ls, start_index + 1, Min(start_index + max_depth, Len(ls)))

(***************************************************************************)
(* extract_section                                                         *)
(***************************************************************************)
EndsSectionNoCisControls(line) ==
    \/ StartsWithSection(line)
    \/ TITLE_PATTERN(line).matched

\* the three conditions that end a section body
EndsSection(line) ==
    \/ StartsWithSection(line)
    \/ TITLE_PATTERN(line).matched
    \/ StartsWith(lower(line), "cis controls")

\* the while loop: the index at which it stops
RECURSIVE SectionStop(_, _)
SectionStop(ls, i) ==
    IF i < Len(ls) /\ (\E line \in {remove_page_numbers(t) : t \in {strip(ls[i + 1])}} :
                         ~EndsSection(line))
    THEN SectionStop(ls, i + 1)
    ELSE i

\* the list `content` when the while loop stops at index stop
SectionContent(ls, start_index, stop) ==
    [j \in 1..(stop - start_index - 1) |->
        remove_page_numbers(strip(ls[start_index + 1 + j]))]

\* the References branch: the list `result` after the lines from index i on
RECURSIVE JoinReferences(_, _, _)
JoinReferencesHyphenFirst(content, i, res) ==
    IF i > Len(content) THEN res
    ELSE LET line == content[i]
             n    == Len(res)
         IN IF n > 0 /\ EndsWith(res[n], "-")
            THEN JoinReferences(content, i + 1,
                                [res EXCEPT ![n] = SubSeq(@, 1, Len(@) - 1) \o line])
            ELSE IF n > 0 /\ (StartsWith(line, "http") \/ EndsWith(res[n], "/"))
            THEN JoinReferences(content, i + 1, [res EXCEPT ![n] = @ \o line])
            ELSE JoinReferences(content, i + 1, Append(res, line))

JoinReferences(content, i, res) ==
    IF i > Len(content) THEN res
    ELSE LET line == content[i]
             n    == Len(res)
         IN CHOOSE out \in
                {JoinReferences(content, i + 1, nxt) :
                    nxt \in
                        {IF n > 0 /\ (StartsWith(line, "http")
                                      \/ (EndsWith(res[n], "/")
                                          /\ ~StartsWith(line, "http")))
                         THEN [res EXCEPT ![n] = @ \o line]
                         ELSE IF n > 0 /\ EndsWith(res[n], "-")
                         THEN [res EXCEPT ![n] = SubSeq(@, 1, Len(@) - 1) \o line]
                         ELSE Append(res, line)}} : TRUE

\* the text returned for the list `content`
SectionText(section_name, content) ==
    IF section_name = "References:"
    THEN strip(Join(JoinReferences(content, 1, <<>>)))
    ELSE strip(Join(content))

\* what is returned when the while loop stops at index stop
SectionResult(ls, start_index, section_name, stop) ==
    CHOOSE ex \in
        {[content |-> SectionText(section_name, content), next_index |-> stop] :
            content \in {SectionContent(ls, start_index, stop)}} : TRUE

extract_section(ls, start_index, section_name) ==
    CHOOSE ex \in
        {SectionResult(ls, start_index, section_name, stop) :
            stop \in {SectionStop(ls, start_index + 1)}} : TRUE

(***************************************************************************)
(* extract_recommendations                                                 *)
(***************************************************************************)
EmptyDict == [k \in {} |-> ""]

\* d[k] = v
Put(d, k, v) == [x \in (DOMAIN d) \cup {k} |-> IF x = k THEN v ELSE d[x]]

\* the multi-line title loop: the index of the last line it absorbs
RECURSIVE TitleStop(_, _)
RECURSIVE TitleStopAt(_, _, _)
TitleStopAt(ls, i, nxt) ==
    IF ~StartsWithSection(nxt) /\ ~TITLE_PATTERN(nxt).matched
    THEN TitleStop(ls, i + 1)
    ELSE i

TitleStop(ls, i) ==
    IF i + 1 < Len(ls)
    THEN CHOOSE last \in {TitleStopAt(ls, i, nxt) : nxt \in {strip(ls[i + 2])}} : TRUE
    ELSE i

\* the lines are appended without the space
RECURSIVE TitleTailNoSpace(_, _, _)
TitleTailNoSpace(ls, i, last) ==
    IF i >= last THEN "" ELSE strip(ls[i + 2]) \o TitleTailNoSpace(ls, i + 1, last)

\* the text the multi-line title loop appends for the lines i+1 .. last
RECURSIVE TitleTail(_, _, _)
TitleTail(ls, i, last) ==
    IF i >= last THEN "" ELSE " " \o strip(ls[i + 2]) \o TitleTail(ls, i + 1, last)

\* the line the outer loop examines at index i
CurrentLine(ls, i) ==
    CHOOSE line \in {remove_page_numbers(t) : t \in {strip(ls[i + 1])}} : TRUE

\* a new recommendation is opened from the match m; the title loop ends at last
OpenRecommendation(ls, st, m, last) ==
    [current_index          |-> last,
     current_recommendation |->
        [k \in {"Number", "Level", "Title"} |->
            CASE k = "Number" -> m.g1
              [] k = "Level"  -> m.g2
              [] k = "Title"  -> m.g3 \o TitleTail(ls, st.current_index, last)],
     recommendations        |->
        IF DOMAIN st.current_recommendation # {}
        THEN Append(st.recommendations, st.current_recommendation)
        ELSE st.recommendations]

TitleStepWithoutGuard(ls, st, m) ==
    IF m.matched
    THEN OpenRecommendation(ls, st, m, TitleStop(ls, st.current_index))
    ELSE st

\* "Detect a recommendation title line", m is TITLE_PATTERN.match(line)
TitleStep(ls, st, m) ==
    IF m.matched /\ find_profile_applicability(ls, st.current_index, DefaultMaxDepth)
    THEN CHOOSE opened \in
            {OpenRecommendation(ls, st, m, last) :
                last \in {TitleStop(ls, st.current_index)}} : TRUE
    ELSE st

\* the first section label the line starts with (the for loop's break)
FirstSection(line) ==
    SECTIONS_WITHOUT_CIS[
        CHOOSE k \in DOMAIN SECTIONS_WITHOUT_CIS :
            /\ StartsWith(line, SECTIONS_WITHOUT_CIS[k])
            /\ \A j \in 1..(k - 1) : ~StartsWith(line, SECTIONS_WITHOUT_CIS[j])]

\* the cursor is put on next_index, so the loop steps over the terminator
StoreSectionSkipsTerminator(st, sec, ex) ==
    [current_index          |-> ex.next_index,
     current_recommendation |->
        Put(st.current_recommendation, SubSeq(sec, 1, Len(sec) - 1), ex.content),
     recommendations        |-> st.recommendations]

StoreSectionStaysOnLabel(st, sec, ex) ==
    [current_index          |-> st.current_index - 1,
     current_recommendation |->
        Put(st.current_recommendation, SubSeq(sec, 1, Len(sec) - 1), ex.content),
     recommendations        |-> st.recommendations]

\* current_recommendation[sec[:-1]] = content; current_index = next_index - 1
StoreSection(st, sec, ex) ==
    [current_index          |-> ex.next_index - 1,
     current_recommendation |->
        Put(st.current_recommendation, SubSeq(sec, 1, Len(sec) - 1), ex.content),
     recommendations        |-> st.recommendations]

\* the section found on the line, extracted from the cursor st has now
SectionFound(ls, st, sec) ==
    CHOOSE after \in
        {StoreSection(st, sec, ex) : ex \in {extract_section(ls, st.current_index, sec)}} :
            TRUE

\* "Extract standard sections"
SectionStep(ls, st, line) ==
    IF StartsWithSection(line) THEN SectionFound(ls, st, FirstSection(line)) ELSE st

\* current_index += 1
Advance(st) == [st EXCEPT !.current_index = @ + 1]

\* one iteration of the outer while loop on the line it examines
LoopOnLine(ls, st, line) ==
    CHOOSE after \in
        {Advance(SectionStep(ls, titled, line)) :
            titled \in {TitleStep(ls, st, m) : m \in {TITLE_PATTERN(line)}}} : TRUE

LoopBody(ls, st) ==
    CHOOSE after \in
        {LoopOnLine(ls, st, line) : line \in {CurrentLine(ls, st.current_index)}} : TRUE

\* "Add the last recommendation if any"
AddLast(st) ==
    IF DOMAIN st.current_recommendation # {}
    THEN Append(st.recommendations, st.current_recommendation)
    ELSE st.recommendations

\* rec['Number'], rec['Title'] raise KeyError for a record without these keys
RaisesKeyError(recs) ==
    \E n \in DOMAIN recs : ~({"Number", "Title"} \subseteq DOMAIN recs[n])

KeyOf(rec) == <<rec["Number"], rec["Title"]>>

\* every record is kept
InsertAlways(acc, rec) == Append(acc, rec)

\* the first record with a key is kept
InsertFirstWins(acc, rec) ==
    IF \E j \in DOMAIN acc : KeyOf(acc[j]) = KeyOf(rec) THEN acc ELSE Append(acc, rec)

\* a key that comes again moves to the end
InsertMovesToEnd(acc, rec) ==
    Append(SelectSeq(acc, LAMBDA r : KeyOf(r) # KeyOf(rec)), rec)

\* unique_recommendations[key] = rec: a key keeps the position of its first
\* insertion and takes the value of its last
Insert(acc, rec) ==
    IF \E j \in DOMAIN acc : KeyOf(acc[j]) = KeyOf(rec)
    THEN [j \in DOMAIN acc |-> IF KeyOf(acc[j]) = KeyOf(rec) THEN rec ELSE acc[j]]
    ELSE Append(acc, rec)

RECURSIVE UniqueFrom(_, _, _)
UniqueFrom(recs, n, acc) ==
    IF n > Len(recs) THEN acc
    ELSE CHOOSE out \in
            {UniqueFrom(recs, n + 1, nxt) : nxt \in {Insert(acc, recs[n])}} : TRUE

\* list(unique_recommendations.values())
unique_recommendations(recs) == UniqueFrom(recs, 1, <<>>)

StartState == [current_index |-> 0, current_recommendation |-> EmptyDict,
               recommendations |-> <<>>]

RECURSIVE RunLoop(_, _)
RunLoop(ls, st) ==
    IF st.current_index < Len(ls) THEN RunLoop(ls, LoopBody(ls, st)) ELSE st

\* what the function does with the list it has when the loop is over
Outcome(recs) ==
    IF RaisesKeyError(recs)
    THEN [raised |-> TRUE, value |-> <<>>]
    ELSE [raised |-> FALSE, value |-> unique_recommendations(recs)]

\* the function as a whole: what it returns, or that it raised
extract_recommendations(ls) == Outcome(AddLast(RunLoop(ls, StartState)))

(***************************************************************************)
(* extract_title_and_version, read_pdf, write_output                       *)
(* A page is <<text>>, or <<>> when extract_text() gives None for it.      *)
(***************************************************************************)
\* the indices of the line boundaries of s; of the boundaries str.splitlines()
\* knows only the newline is in the texts
Newlines(s) == {i \in 1..Len(s) : Char(s, i) = "\n"}

\* the index of the k-th boundary of B, or the index after the end of s
LineEnd(s, B, k) ==
    IF k > Cardinality(B) THEN Len(s) + 1
    ELSE CHOOSE i \in B : Cardinality({j \in B : j <= i}) = k

LineStart(s, B, k) == IF k = 1 THEN 1 ELSE LineEnd(s, B, k - 1) + 1

\* a text that does not end with a boundary has one more line
LineCount(s, B) ==
    Cardinality(B) + (IF Len(s) > 0 /\ Char(s, Len(s)) # "\n" THEN 1 ELSE 0)

SplitAt(s, B) ==
    [k \in 1..LineCount(s, B) |-> SubSeq(s, LineStart(s, B, k), LineEnd(s, B, k) - 1)]

\* str.splitlines()
splitlines(s) == CHOOSE ls \in {SplitAt(s, B) : B \in {Newlines(s)}} : TRUE

\* the for loop over first_page_text from index i on
RECURSIVE ScanFirstPage(_, _, _)
ScanFirstPage(ls, i, title_lines) ==
    IF i > Len(ls) THEN [title_lines |-> title_lines, version |-> ""]
    ELSE IF StartsWith(lower(ls[i]), "v") /\ Contains(ls[i], "-")
    THEN [title_lines |-> title_lines, version |-> strip(ls[i])]
    ELSE ScanFirstPage(ls, i + 1, Append(title_lines, strip(ls[i])))

\* the pair returned for what the loop found
TitleAndVersion(found) ==
    [title   |-> IF found.title_lines # <<>>
                 THEN Join(found.title_lines)
                 ELSE "CIS Benchmark Document",
     version |-> found.version]

\* extract_title_and_version for the text of the first page
extract_title_and_version(text) ==
    CHOOSE tv \in
        {TitleAndVersion(found) :
            found \in {ScanFirstPage(splitlines(text), 1, <<>>)}} : TRUE

\* text_pages without its empty strings, from page i on (pages start at 1)
RECURSIVE TextPages(_, _)
TextPages(doc, i) ==
    IF i > Len(doc) THEN <<>>
    ELSE IF doc[i] = <<>> \/ doc[i] = <<"">> THEN TextPages(doc, i + 1)
    ELSE <<doc[i][1]>> \o TextPages(doc, i + 1)

\* "\n".join(parts)
RECURSIVE JoinLinesFrom(_, _)
JoinLinesFrom(parts, i) ==
    IF i > Len(parts) THEN ""
    ELSE IF i = Len(parts) THEN parts[i]
    ELSE parts[i] \o "\n" \o JoinLinesFrom(parts, i + 1)

\* read_pdf for a start page within the document
read_pdf(doc, first) ==
    CHOOSE text \in {JoinLinesFrom(parts, 1) : parts \in {TextPages(doc, first)}} : TRUE

\* the column headers of the csv and excel outputs
Headers ==
    <<"Compliance Status", "Number", "Level", "Title">>
        \o [k \in DOMAIN SECTIONS_WITHOUT_CIS |->
                SubSeq(SECTIONS_WITHOUT_CIS[k], 1, Len(SECTIONS_WITHOUT_CIS[k]) - 1)]

\* recommendation.get(header, '')
Get(rec, header) == IF header \in DOMAIN rec THEN rec[header] ELSE ""

Row(rec) == [k \in DOMAIN Headers |-> Get(rec, Headers[k])]

WithStatusCompliant(rec) == Put(rec, "Compliance Status", "Compliant")

\* recommendation['Compliance Status'] = 'To Review'
WithStatus(rec) == Put(rec, "Compliance Status", "To Review")

\* recommendation['Implemented'] = ''; recommendation['Reasoning'] = ''
WithAnnotations(rec) == Put(Put(rec, "Implemented", ""), "Reasoning", "")

\* title if title else "CIS Benchmark Document"
TitleOrDefault(t) == IF t # "" THEN t ELSE "CIS Benchmark Document"

\* the rows of the csv file for the records recs, which have their status
CsvRows(recs, t, v) ==
    <<<<TitleOrDefault(t)>>, <<v>>, <<>>, Headers>> \o [n \in DOMAIN recs |-> Row(recs[n])]

\* the rows of the sheet
SheetRows(recs, t, v) ==
    <<<<TitleOrDefault(t)>>, <<v>>, [k \in DOMAIN Headers |-> ""], Headers>>
        \o [n \in DOMAIN recs |-> Row(recs[n])]

\* the object given to json.dump
JsonData(recs, t, v) ==
    [document_title |-> TitleOrDefault(t), document_version |-> v, recommendations |-> recs]

\* nothing was written
NoOutput == [format |-> "none"]

(***************************************************************************)
(* Input line streams                                                      *)
(***************************************************************************)
MaxLines == 2

MaxBlocks == 3

MaxPad == 10

\* the kinds of line the parser tells apart
Pool ==
    {"1.1 T", "2.1 (L1) E", "Profile Applicability:", "Description:",
     "References:", "x", "http://a/", "b-", "CIS Controls:",
     "see CIS Controls", "x Page 4"}

Blocks ==
    {<<"1.1 T", "Profile Applicability:">>,
     <<"1.1 T", "Profile Applicability:", "x">>,
     <<"2.1 (L1) E", "Profile Applicability:", "Description:", "x">>,
     <<"1.1 T", "x", "Profile Applicability:", "Description:">>,
     <<"CIS Controls:", "x">>,
     <<"1.1 T">>, <<"Description:">>, <<"x">>}

\* every list of at most n elements of S
RECURSIVE SeqsUpTo(_, _)
SeqsUpTo(S, n) ==
    IF n = 0 THEN {<<>>}
    ELSE SeqsUpTo(S, n - 1) \cup
         {Append(q, x) : q \in {r \in SeqsUpTo(S, n - 1) : Len(r) = n - 1}, x \in S}

RECURSIVE Flatten(_, _)
Flatten(bs, i) == IF i > Len(bs) THEN <<>> ELSE bs[i] \o Flatten(bs, i + 1)

ShortStreams == SeqsUpTo(Pool, MaxLines)

\* a title line and at most MaxLines lines, twice
DoubledStreams ==
    {(<<t>> \o r) \o (<<t>> \o r) :
        t \in {"1.1 T", "2.1 (L1) E"}, r \in SeqsUpTo(Pool, MaxLines)}

BlockStreams == {Flatten(bs, 1) : bs \in SeqsUpTo(Blocks, MaxBlocks)}

\* a title, n plain lines, then one more line and possibly a section label
PaddedStreams ==
    {<<"1.1 T">> \o [j \in 1..n |-> "x"] \o <<e>> \o t :
        n \in 0..MaxPad,
        e \in {"Profile Applicability:", "Description:", "2.1 (L1) E", "x"},
        t \in {<<>>, <<"Profile Applicability:">>}}

ReferenceExample ==
    <<"1.1 T", "Profile Applicability:", "References:",
      "See https://example.com/", "page", "and also", "https://other.com/">>

TitleExample == <<"2.1 (L1) Ensure", "something is configured", "Profile Applicability:">>

SectionExample ==
    <<"1.1 Title", "Profile Applicability:", "Level 1", "Description:",
      "Body text", "1.2 Next">>

MaxFooter == 2

\* lines of a page footer: none is an accepted title or a section label
FooterPool == {"x", "1.9 see", "x Page 4", "see CIS Controls", "b-"}

FirstRecommendation ==
    <<"1.1 A", "Profile Applicability:", "Level 1", "Description:", "d1",
      "References:", "http://a/">>

SecondRecommendation ==
    <<"1.2 (L2) B", "Profile Applicability:", "Level 2", "Description:", "d2",
      "References:", "http://b/">>

\* two recommendations with a footer block between them
EndToEndStreams ==
    {FirstRecommendation \o <<c>> \o f \o SecondRecommendation :
        c \in {"CIS Controls:", "cis controls v8 Page 3"},
        f \in SeqsUpTo(FooterPool, MaxFooter)}

MaxRefLines == 3

\* the kinds of line a References body is made of
RefPool == {"x", "http://a/", "b-", "c/", "x Page 4", ""}

\* a recommendation whose References section has at most MaxRefLines lines
ReferenceStreams ==
    {<<"1.1 T", "Profile Applicability:", "References:">> \o r :
        r \in SeqsUpTo(RefPool, MaxRefLines)}

PageNumberExample ==
    <<"1.1 T", "x Page 4", "Profile Applicability:", "y Page 5", "Description:",
      "Page 7 z">>

Streams ==
    ShortStreams \cup DoubledStreams \cup BlockStreams \cup PaddedStreams
        \cup {ReferenceExample, TitleExample, SectionExample, PageNumberExample}
        \cup EndToEndStreams \cup ReferenceStreams

(***************************************************************************)
(* The parser as a state machine: one step per iteration of the outer loop *)
(***************************************************************************)
\* the parser is run on its own, on a list of lines
NoDocument ==
    /\ pdf = <<>>
    /\ start_page = 1
    /\ output_format = "none"
    /\ title = ""
    /\ version = ""
    /\ stage = "parse"
    /\ error = ""
    /\ written = NoOutput

Init ==
    /\ lines \in Streams
    /\ current_index = 0
    /\ current_recommendation = EmptyDict
    /\ recommendations = <<>>
    /\ pc = "loop"
    /\ result = <<>>
    /\ NoDocument

State == [current_index |-> current_index,
          current_recommendation |-> current_recommendation,
          recommendations |-> recommendations]

\* the kind of step the outer loop takes at index i
StepKind(ls, line, i) ==
    IF TITLE_PATTERN(line).matched
    THEN IF find_profile_applicability(ls, i, DefaultMaxDepth) THEN "accept" ELSE "reject"
    ELSE IF StartsWithSection(line) THEN "section" ELSE "inert"

Kind ==
    CHOOSE k \in
        {StepKind(lines, line, current_index) :
            line \in {CurrentLine(lines, current_index)}} : TRUE

InLoop == pc = "loop" /\ current_index < Len(lines)

Iterate ==
    \E st \in {LoopBody(lines, State)} :
        /\ current_index' = st.current_index
        /\ current_recommendation' = st.current_recommendation
        /\ recommendations' = st.recommendations
        /\ UNCHANGED <<lines, pc, result>>
        /\ UNCHANGED mainvars

\* a title line that passes the guard opens a new recommendation
AcceptTitle == InLoop /\ Kind = "accept" /\ Iterate

\* a title line that fails the guard
RejectTitle == InLoop /\ Kind = "reject" /\ Iterate

\* a line that starts with a section label
SectionLine == InLoop /\ Kind = "section" /\ Iterate

\* any other line
InertLine == InLoop /\ Kind = "inert" /\ Iterate

\* the loop is over: the last recommendation is added, and either the list is
\* returned without its duplicates or the comprehension raises KeyError
Finish(recs, out) ==
    /\ recommendations' = recs
    /\ pc' = IF out.raised THEN "raised" ELSE "done"
    /\ result' = out.value
    /\ UNCHANGED <<lines, current_index, current_recommendation>>
    /\ UNCHANGED mainvars

LoopOver == pc = "loop" /\ current_index >= Len(lines)

Return ==
    /\ LoopOver
    /\ ~RaisesKeyError(AddLast(State))
    /\ \E recs \in {AddLast(State)} : Finish(recs, Outcome(recs))

RaiseKeyError ==
    /\ LoopOver
    /\ RaisesKeyError(AddLast(State))
    /\ \E recs \in {AddLast(State)} : Finish(recs, Outcome(recs))

Next ==
    \/ AcceptTitle
    \/ RejectTitle
    \/ SectionLine
    \/ InertLine
    \/ Return
    \/ RaiseKeyError

Spec == Init /\ [][Next]_vars

\* the streams of at most MaxLines lines, the padded ones and the examples
FairStreams ==
    ShortStreams \cup PaddedStreams
        \cup {ReferenceExample, TitleExample, SectionExample, PageNumberExample}
        \cup {FirstRecommendation \o <<"CIS Controls:">> \o SecondRecommendation}

FairInit == Init /\ lines \in FairStreams

\* the function runs to its end: a step that can be taken is taken
FairSpec == FairInit /\ [][Next]_vars /\ WF_vars(Next)

TypeOK ==
    /\ current_index \in 0..Len(lines)
    /\ pc \in {"loop", "done", "raised"}

(***************************************************************************)
(* main: the title and version, the text from the start page on, the       *)
(* parser, the output                                                      *)
(***************************************************************************)
MaxBodyPages == 2

\* first pages: without text, empty, with and without a version line, with
\* an empty title line, with a line that starts with 'V' before the version
FirstPages ==
    {<<>>, <<"">>, <<"CIS Benchmark\nv1.0 - 2024">>, <<"v1.0 - 2024">>,
     <<" \nV2 - x ">>, <<"Title only">>, <<"A\n B \nVendor-1\nv9 - z">>}

\* the pages after the first
BodyPages ==
    {<<>>, <<"1.1 T\nProfile Applicability:\nLevel 1\n1.2 U\nProfile Applicability:">>,
     <<"Description:\nd">>, <<"x\n2.1 (L1) E">>}

Documents ==
    {<<first>> \o body : first \in FirstPages, body \in SeqsUpTo(BodyPages, MaxBodyPages)}

\* --start_page: from less than 1 to more than the pages of any document
StartPages == 0..(MaxBodyPages + 2)

MainInit ==
    /\ pdf \in Documents
    /\ start_page \in StartPages
    /\ output_format \in {"csv", "excel", "json"}
    /\ title = ""
    /\ version = ""
    /\ stage = "title"
    /\ error = ""
    /\ written = NoOutput
    /\ lines = <<>>
    /\ current_index = 0
    /\ current_recommendation = EmptyDict
    /\ recommendations = <<>>
    /\ pc = "idle"
    /\ result = <<>>

parservars == <<lines, current_index, current_recommendation, recommendations, pc, result>>

\* main ends with the exception e
Fails(e) ==
    /\ stage' = "failed"
    /\ error' = e
    /\ UNCHANGED <<pdf, start_page, output_format, title, version, written>>
    /\ UNCHANGED parservars

\* title, version = extract_title_and_version(input_file)
ExtractTitleAndVersion ==
    /\ stage = "title"
    /\ pdf[1] # <<>>
    /\ \E tv \in {extract_title_and_version(pdf[1][1])} :
        /\ title' = tv.title
        /\ version' = tv.version
    /\ stage' = "read"
    /\ UNCHANGED <<pdf, start_page, output_format, error, written>>
    /\ UNCHANGED parservars

\* extract_text() gave None for the first page: None has no splitlines
TitleExtractionFails ==
    /\ stage = "title"
    /\ pdf[1] = <<>>
    /\ Fails("AttributeError")

\* pdf_text = read_pdf(input_file, start_page); the parser starts on its lines
ReadPdf ==
    /\ stage = "read"
    /\ start_page >= 1
    /\ start_page <= Len(pdf)
    /\ \E pdf_text \in {read_pdf(pdf, start_page)} : lines' = splitlines(pdf_text)
    /\ pc' = "loop"
    /\ stage' = "parse"
    /\ UNCHANGED <<current_index, current_recommendation, recommendations, result>>
    /\ UNCHANGED <<pdf, start_page, output_format, title, version, error, written>>

\* start_page is out of range
ReadPdfRejectsStartPage ==
    /\ stage = "read"
    /\ (start_page < 1 \/ start_page > Len(pdf))
    /\ Fails("ValueError")

\* write_output has given the records recs to the file as the output out
Written(recs, out) ==
    /\ result' = recs
    /\ written' = out
    /\ stage' = "end"
    /\ UNCHANGED <<pdf, start_page, output_format, title, version, error>>
    /\ UNCHANGED <<lines, current_index, current_recommendation, recommendations, pc>>

ParserReturned == stage = "parse" /\ pc = "done"

WriteCsv ==
    /\ ParserReturned
    /\ output_format = "csv"
    /\ \E recs \in {[n \in DOMAIN result |-> WithStatus(result[n])]} :
        Written(recs, [format |-> "csv", rows |-> CsvRows(recs, title, version)])

WriteExcel ==
    /\ ParserReturned
    /\ output_format = "excel"
    /\ \E recs \in {[n \in DOMAIN result |-> WithStatus(result[n])]} :
        Written(recs, [format |-> "excel", rows |-> SheetRows(recs, title, version)])

WriteJson ==
    /\ ParserReturned
    /\ output_format = "json"
    /\ \E recs \in {[n \in DOMAIN result |-> WithAnnotations(result[n])]} :
        Written(recs, [format |-> "json", data |-> JsonData(recs, title, version)])

MainNext ==
    \/ ExtractTitleAndVersion
    \/ TitleExtractionFails
    \/ ReadPdf
    \/ ReadPdfRejectsStartPage
    \/ AcceptTitle
    \/ RejectTitle
    \/ SectionLine
    \/ InertLine
    \/ Return
    \/ RaiseKeyError
    \/ WriteCsv
    \/ WriteExcel
    \/ WriteJson

MainSpec == MainInit /\ [][MainNext]_vars

(***************************************************************************)
(* Claims                                                                  *)
(***************************************************************************)
\* whether the outer loop opens a new recommendation at index i of ls
AcceptedAt(ls, i) == StepKind(ls, CurrentLine(ls, i), i) = "accept"

\* C1: extract_recommendations never raises, whatever the line stream: it
\* always returns a record list.
C1_NeverRaises == pc # "raised"

\* C2: when no title-pattern line of the stream passes the lookahead guard,
\* the function returns the empty list as a normal outcome, whatever other
\* lines the stream contains.
C2_EmptyWithoutAcceptedTitle ==
    (pc # "loop" /\ \A i \in 0..(Len(lines) - 1) : ~AcceptedAt(lines, i))
        => (pc = "done" /\ result = <<>>)

\* digits, then one or more ".digits" groups
IsDottedNumber(s) ==
    /\ Len(s) >= 3
    /\ \A i \in 1..Len(s) : Char(s, i) \in Digits \cup {"."}
    /\ Char(s, 1) \in Digits
    /\ Char(s, Len(s)) \in Digits
    /\ \E i \in 1..Len(s) : Char(s, i) = "."
    /\ \A i \in 1..(Len(s) - 1) : ~(Char(s, i) = "." /\ Char(s, i + 1) = ".")

\* C3: every record of the returned list has the fields Number, Level and
\* Title, and its Number is a non-empty dotted number; no record made of
\* section labels alone is in the output.
C3_MandatoryFields ==
    pc = "done" =>
        \A n \in DOMAIN result :
            /\ {"Number", "Level", "Title"} \subseteq DOMAIN result[n]
            /\ result[n]["Number"] # ""
            /\ IsDottedNumber(result[n]["Number"])

\* a list with two records, one of them with sections, was returned
C3_Witness ==
    /\ pc = "done"
    /\ Len(result) = 2
    /\ \E n \in DOMAIN result : "Description" \in DOMAIN result[n]

\* the guard as the claim states it: some line at offset 1..10 starts with
\* 'Profile Applicability:' and no line before it, after the title, matches the
\* title pattern or starts with a section label
ClaimedGuard(ls, i) ==
    \E k \in 1..DefaultMaxDepth :
        /\ i + k < Len(ls)
        /\ StartsWith(strip(ls[i + k + 1]), "Profile Applicability:")
        /\ \A j \in 1..(k - 1) :
            /\ ~TITLE_PATTERN(strip(ls[i + j + 1])).matched
            /\ ~StartsWithSection(strip(ls[i + j + 1]))

\* C4: for the title-pattern line the loop examines, the guard accepts exactly
\* when 'Profile Applicability:' starts one of the 10 lines after it with no
\* title or section label in between.
C4_GuardWindow ==
    (InLoop /\ TITLE_PATTERN(CurrentLine(lines, current_index)).matched)
        => (find_profile_applicability(lines, current_index, DefaultMaxDepth)
                <=> ClaimedGuard(lines, current_index))

\* the first index after s whose line ends a section body: it starts with a
\* section label, matches the title pattern or is a 'CIS Controls' line; the
\* length of the stream when there is none
FirstTerminator(ls, s) ==
    CHOOSE t \in (s + 1)..Len(ls) :
        /\ t < Len(ls) => EndsSection(CurrentLine(ls, t))
        /\ \A j \in (s + 1)..(t - 1) : ~EndsSection(CurrentLine(ls, j))

\* the lines s+1 .. t-1, each trimmed and without its page numbers
LinesBetween(ls, s, t) == [j \in 1..(t - s - 1) |-> CurrentLine(ls, s + j)]

\* C5: on a section-label line at index s the stored body is made of exactly
\* the lines s+1..t-1, t being the first later terminator (or the end of the
\* stream), and the cursor is left on line t, which the loop examines next: a
\* title there is taken as a candidate, a section label opens its own section.
\* In the stream 1.1 Title / Profile Applicability: / Level 1 / Description: /
\* Body text / 1.2 Next the Description is exactly "Body text".
C5_SectionBodyTermination ==
    [][/\ (InLoop /\ Kind = "section") =>
            LET s   == current_index
                t   == FirstTerminator(lines, s)
                sec == FirstSection(CurrentLine(lines, s))
            IN /\ current_index' = t
               /\ pc' = "loop"
               /\ current_recommendation'[SubSeq(sec, 1, Len(sec) - 1)]
                    = SectionText(sec, LinesBetween(lines, s, t))
       /\ (InLoop /\ Kind = "accept") =>
            current_recommendation'["Number"]
                = TITLE_PATTERN(CurrentLine(lines, current_index)).g1
       /\ (InLoop /\ Kind = "section" /\ lines = SectionExample /\ current_index = 3) =>
            /\ current_recommendation'["Description"] = "Body text"
            /\ current_index' = 5]_vars

\* a section body was ended by a title line, on which the cursor now is
C5_Witness ==
    /\ pc = "loop"
    /\ current_index < Len(lines)
    /\ current_index > 0
    /\ TITLE_PATTERN(CurrentLine(lines, current_index)).matched
    /\ "Number" \in DOMAIN current_recommendation
    /\ "Description" \in DOMAIN current_recommendation
    /\ current_recommendation["Description"] = CurrentLine(lines, current_index - 1)
    /\ current_recommendation["Description"] # ""

\* C6: a line that contains 'CIS Controls' anywhere ends the section body, and
\* no such line is among the lines the section step consumes.
C6_CisControlsAnywhere ==
    [][(InLoop /\ Kind = "section") =>
         \A j \in (current_index + 1)..(current_index' - 1) :
            ~Contains(lower(lines[j + 1]), "cis controls")]_vars

\* s is one of the space-separated entries of text
IsEntry(text, s) == Contains(" " \o text \o " ", " " \o s \o " ")

\* C7: in a References body a line after an entry that ends with '/' is joined
\* to it with no separator, and a URL line after a completed non-URL entry is
\* an entry of its own; the body lines See https://example.com/ / page /
\* and also / https://other.com/ give a text with 'https://example.com/page'
\* unbroken and 'https://other.com/' as a separate entry.
C7_ReferenceStitching ==
    [][(InLoop /\ Kind = "section"
            /\ FirstSection(CurrentLine(lines, current_index)) = "References:") =>
         LET s       == current_index
             content == LinesBetween(lines, s, FirstTerminator(lines, s))
             body    == current_recommendation'["References"]
         IN /\ (Len(content) >= 2 /\ EndsWith(content[1], "/")
                    /\ ~StartsWith(content[2], "http"))
                => Contains(body, content[1] \o content[2])
            /\ (Len(content) >= 2 /\ content[1] # ""
                    /\ ~Contains(content[1], "http")
                    /\ ~EndsWith(content[1], "/") /\ ~EndsWith(content[1], "-")
                    /\ StartsWith(content[2], "http"))
                => Contains(" " \o body, " " \o content[2])
            /\ lines = ReferenceExample
                => /\ Contains(body, "https://example.com/page")
                   /\ IsEntry(body, "https://other.com/")]_vars

\* the first index after i whose line matches the title pattern or starts with
\* a section label; the length of the stream when there is none
NextBoundary(ls, i) ==
    CHOOSE j \in (i + 1)..Len(ls) :
        /\ j < Len(ls) =>
            \/ TITLE_PATTERN(strip(ls[j + 1])).matched
            \/ StartsWithSection(strip(ls[j + 1]))
        /\ \A k \in (i + 1)..(j - 1) :
            /\ ~TITLE_PATTERN(strip(ls[k + 1])).matched
            /\ ~StartsWithSection(strip(ls[k + 1]))

\* C8: an accepted title line seeds Number, Level (the bracketed tag or the
\* empty string) and Title from the match, every following line up to the next
\* title-pattern or section-label line is appended to Title after one space,
\* and the cursor resumes at that line; 2.1 (L1) Ensure / something is
\* configured / Profile Applicability: gives the Title "Ensure something is
\* configured" and the Level "(L1)".
C8_MultiLineTitle ==
    [][(InLoop /\ Kind = "accept") =>
         LET i == current_index
             j == NextBoundary(lines, i)
             m == TITLE_PATTERN(CurrentLine(lines, i))
         IN /\ DOMAIN current_recommendation' = {"Number", "Level", "Title"}
            /\ current_recommendation'["Number"] = m.g1
            /\ current_recommendation'["Level"] = m.g2
            /\ \/ m.g2 = ""
               \/ StartsWith(m.g2, "(L") /\ EndsWith(m.g2, ")")
            /\ current_recommendation'["Title"]
                = Join(<<m.g3>> \o [k \in 1..(j - i - 1) |-> strip(lines[i + k + 1])])
            /\ current_index' = j
            /\ lines = TitleExample =>
                /\ current_recommendation'["Title"] = "Ensure something is configured"
                /\ current_recommendation'["Level"] = "(L1)"
                /\ current_index' = 2]_vars

\* the title of the example was put together from its two lines
C8_Witness ==
    /\ lines = TitleExample
    /\ current_index = 2
    /\ current_recommendation =
        [Number |-> "2.1", Level |-> "(L1)", Title |-> "Ensure something is configured"]

\* b describes one recommendation: its first line is an accepted title and no
\* other line of it is
WellFormedBlock(b) ==
    /\ Len(b) >= 2
    /\ AcceptedAt(b, 0)
    /\ \A i \in 1..(Len(b) - 1) : ~AcceptedAt(b, i)

\* the stream is a well-formed block followed by itself
IsDoubledBlock(ls) ==
    /\ Len(ls) % 2 = 0
    /\ SubSeq(ls, 1, Len(ls) \div 2) = SubSeq(ls, Len(ls) \div 2 + 1, Len(ls))
    /\ WellFormedBlock(SubSeq(ls, 1, Len(ls) \div 2))

\* C9: on a well-formed block followed by itself the function returns the
\* same single record as on the block alone.
C9_DeduplicationIdempotence ==
    (pc # "loop" /\ IsDoubledBlock(lines)) =>
        /\ pc = "done"
        /\ Len(result) = 1
        /\ ~extract_recommendations(SubSeq(lines, 1, Len(lines) \div 2)).raised
        /\ result = extract_recommendations(SubSeq(lines, 1, Len(lines) \div 2)).value

\* a doubled block was parsed: two records were emitted, with sections
C9_Witness ==
    /\ pc = "done"
    /\ IsDoubledBlock(lines)
    /\ Len(recommendations) = 2
    /\ Len(result) = 1
    /\ "Description" \in DOMAIN result[1]

\* the last index of recs with the key of rec
LastWithKey(recs, rec) ==
    CHOOSE n \in DOMAIN recs :
        /\ KeyOf(recs[n]) = KeyOf(rec)
        /\ \A k \in DOMAIN recs : KeyOf(recs[k]) = KeyOf(rec) => k <= n

\* C10: in the returned list no two records have the same (Number, Title),
\* the key of every emitted record is there exactly once, and the record kept
\* for a key is the last one emitted with it.
C10_UniqueKeysLastWins ==
    pc = "done" =>
        /\ \A a, b \in DOMAIN result :
            a # b => KeyOf(result[a]) # KeyOf(result[b])
        /\ \A n \in DOMAIN recommendations :
            Cardinality({m \in DOMAIN result :
                            KeyOf(result[m]) = KeyOf(recommendations[n])}) = 1
        /\ \A m \in DOMAIN result :
            /\ \E n \in DOMAIN recommendations :
                KeyOf(recommendations[n]) = KeyOf(result[m])
            /\ result[m] = recommendations[LastWithKey(recommendations, result[m])]

\* two different records with the same key were emitted, and others
C10_Witness ==
    /\ pc = "done"
    /\ Len(result) = 2
    /\ \E a, b \in DOMAIN recommendations :
        /\ a < b
        /\ KeyOf(recommendations[a]) = KeyOf(recommendations[b])
        /\ recommendations[a] # recommendations[b]

\* the record of a recommendation whose sections have the given bodies
RecordOf(number, level, heading, applicability, description, references) ==
    [k \in {"Number", "Level", "Title", "Profile Applicability", "Description",
            "References"} |->
        CASE k = "Number" -> number
          [] k = "Level" -> level
          [] k = "Title" -> heading
          [] k = "Profile Applicability" -> applicability
          [] k = "Description" -> description
          [] k = "References" -> references]

\* C12: for two recommendations, each with a title, Profile Applicability,
\* Description and References, separated by a footer block that begins with a
\* 'CIS Controls' line, exactly two records are returned, every section field
\* holds the lines of its own section only, and no footer line is in any field.
C12_EndToEndIsolation ==
    (pc # "loop" /\ lines \in EndToEndStreams) =>
        /\ pc = "done"
        /\ result = <<RecordOf("1.1", "", "A", "Level 1", "d1", "http://a/"),
                      RecordOf("1.2", "(L2)", "B", "Level 2", "d2", "http://b/")>>

\* the two records are back and the footer had a title-pattern line in it
C12_Witness ==
    /\ pc = "done"
    /\ lines \in EndToEndStreams
    /\ Len(lines) = 17
    /\ lines[9] = "1.9 see"
    /\ Len(result) = 2

\* the entries the stated rule makes of the body lines, taken in order: a line
\* that starts with 'http' goes on the end of the last entry when there is one;
\* if not, a line goes on the end of a last entry that ends with '/'; if not,
\* a last entry that ends with '-' loses the hyphen and gets the line; if not,
\* the line is a new entry
ClaimedEntries(content) ==
    LET E[n \in 0..Len(content)] ==
            IF n = 0 THEN <<>>
            ELSE LET prev == E[n - 1]
                     line == content[n]
                     has  == prev # <<>>
                     last == prev[Len(prev)]
                 IN IF has /\ StartsWith(line, "http")
                    THEN [prev EXCEPT ![Len(prev)] = last \o line]
                    ELSE IF has /\ EndsWith(last, "/")
                    THEN [prev EXCEPT ![Len(prev)] = last \o line]
                    ELSE IF has /\ EndsWith(last, "-")
                    THEN [prev EXCEPT ![Len(prev)] =
                              SubSeq(last, 1, Len(last) - 1) \o line]
                    ELSE Append(prev, line)
    IN E[Len(content)]

\* the body lines of the References section whose label is at the cursor
ReferenceLines == LinesBetween(lines, current_index, FirstTerminator(lines, current_index))

AtReferences ==
    /\ InLoop
    /\ Kind = "section"
    /\ FirstSection(CurrentLine(lines, current_index)) = "References:"

\* C15: the References body is made by that rule from its lines, and it is
\* the entries joined with single spaces, without the white space at its two
\* ends.
C15_ReferenceJoining ==
    [][AtReferences =>
         current_recommendation'["References"]
             = strip(Join(ClaimedEntries(ReferenceLines)))]_vars

\* C15 as stated: the body is the entries joined with single spaces.
C15_JoinedEntries ==
    [][AtReferences =>
         current_recommendation'["References"]
             = Join(ClaimedEntries(ReferenceLines))]_vars

\* a References body of three lines was stored: a URL line went on the end of
\* an entry that ends with a hyphen
C15_Witness ==
    /\ pc = "loop"
    /\ Len(lines) = 6
    /\ current_index = 6
    /\ lines[3] = "References:"
    /\ lines[5] = "b-"
    /\ lines[6] = "http://a/"
    /\ "References" \in DOMAIN current_recommendation
    /\ Contains(current_recommendation["References"], "b-http://a/")

\* PAGE_NUMBER_PATTERN.search(s) finds a 'Page N' in s
HasPageNumber(s) == \E i \in 1..Len(s) : PAGE_NUMBER_PATTERN(s, i) > 0

\* the records made so far: the open one, the emitted ones, the returned ones
RecordsSoFar ==
    {current_recommendation}
        \cup {recommendations[n] : n \in DOMAIN recommendations}
        \cup {result[n] : n \in DOMAIN result}

\* C16: no text stored in a field of a record, the Title with the continuation
\* lines absorbed into it and every section body, has a 'Page N' of a source
\* line in it.
C16_NoPageNumberStored ==
    \A rec \in RecordsSoFar : \A k \in DOMAIN rec : ~HasPageNumber(rec[k])

\* the field a section-label line at the cursor is stored in
SectionKey ==
    LET sec == FirstSection(CurrentLine(lines, current_index))
    IN SubSeq(sec, 1, Len(sec) - 1)

\* C17: a title-pattern line that fails the guard is not a record boundary:
\* the step on it leaves the open record and the emitted records as they are,
\* and a section label met later is stored in the record that is open, which
\* keeps its other fields, while the emitted records stay as they are.
C17_RejectedTitleNoBoundary ==
    [][/\ (InLoop /\ Kind = "reject") =>
            /\ current_recommendation' = current_recommendation
            /\ recommendations' = recommendations
            /\ pc' = "loop"
       /\ (InLoop /\ Kind = "section") =>
            /\ recommendations' = recommendations
            /\ DOMAIN current_recommendation'
                = DOMAIN current_recommendation \cup {SectionKey}
            /\ \A k \in DOMAIN current_recommendation \ {SectionKey} :
                current_recommendation'[k] = current_recommendation[k]]_vars

\* a title was rejected while a record was open, and the Description label
\* after it was stored in that record
C17_Witness ==
    /\ pc = "loop"
    /\ lines = <<"1.1 T", "Profile Applicability:", "1.1 T", "Description:">>
    /\ current_index = 4
    /\ recommendations = <<>>
    /\ DOMAIN current_recommendation
        = {"Number", "Level", "Title", "Profile Applicability", "Description"}

\* C18: every iteration of the outer loop leaves the cursor strictly further
\* on, also when a title absorbed continuation lines and when a section step
\* with an empty body put it back by one, and never past the end of the lines;
\* so no line is examined twice and the parser comes to its end.
C18_CursorProgress ==
    /\ [][InLoop => (current_index < current_index' /\ current_index' <= Len(lines))]_vars
    /\ <>(pc # "loop")

\* the parser is over, having stepped over a title with two continuation
\* lines and over a section label with an empty body
C18_Witness ==
    /\ pc = "done"
    /\ current_index = Len(lines)
    /\ lines = <<"1.1 T", "x", "x", "Profile Applicability:", "Profile Applicability:">>

\* the trimmed line at index j starts with the Profile Applicability label
IsApplicabilityLine(ls, j) == StartsWith(strip(ls[j + 1]), "Profile Applicability:")

\* a record is open that has no Profile Applicability field yet
AwaitsApplicability ==
    /\ pc = "loop"
    /\ "Number" \in DOMAIN current_recommendation
    /\ "Profile Applicability" \notin DOMAIN current_recommendation

\* C19: every returned record has a Profile Applicability field: the step
\* that accepts a title leaves the cursor exactly on the first Profile
\* Applicability line after the title, and while the new record has no such
\* field the line at the cursor is that label, taken next as a section.
C19_ProfileApplicabilityPresent ==
    [][/\ (InLoop /\ Kind = "accept") =>
            /\ current_index' < Len(lines)
            /\ IsApplicabilityLine(lines, current_index')
            /\ \A j \in (current_index + 1)..(current_index' - 1) :
                ~IsApplicabilityLine(lines, j)
       /\ AwaitsApplicability' =>
            /\ InLoop'
            /\ Kind' = "section"
            /\ FirstSection(CurrentLine(lines', current_index')) = "Profile Applicability:"
       /\ pc' = "done" =>
            \A n \in DOMAIN result' : "Profile Applicability" \in DOMAIN result'[n]]_vars

\* two records were returned; the title of one had absorbed continuation lines
C19_Witness ==
    /\ pc = "done"
    /\ Len(result) = 2
    /\ \E n \in DOMAIN result : Contains(result[n]["Title"], " ")
    /\ \A n \in DOMAIN result : "Profile Applicability" \in DOMAIN result[n]

\* the indices of recs at which a key is emitted for the first time
FirstEmissions(recs) ==
    {n \in DOMAIN recs : \A k \in 1..(n - 1) : KeyOf(recs[k]) # KeyOf(recs[n])}

\* the m-th of them, in increasing order
NthFirstEmission(recs, m) ==
    CHOOSE n \in FirstEmissions(recs) :
        Cardinality({k \in FirstEmissions(recs) : k <= n}) = m

\* C20: the returned records are in the order in which their keys were first
\* emitted, each position holding the last record emitted with its key; when
\* all emitted keys are distinct the returned list is the emitted list.
C20_OutputOrder ==
    pc = "done" =>
        /\ Len(result) = Cardinality(FirstEmissions(recommendations))
        /\ \A m \in DOMAIN result :
            result[m] =
                recommendations[
                    LastWithKey(recommendations,
                                recommendations[NthFirstEmission(recommendations, m)])]
        /\ Cardinality(FirstEmissions(recommendations)) = Len(recommendations)
            => result = recommendations

\* a key was emitted again after another key: its last record is returned
\* first, the record of the other key second
C20_Witness ==
    /\ pc = "done"
    /\ Len(recommendations) = 3
    /\ KeyOf(recommendations[1]) = KeyOf(recommendations[3])
    /\ KeyOf(recommendations[1]) # KeyOf(recommendations[2])
    /\ recommendations[1] # recommendations[3]
    /\ result = <<recommendations[3], recommendations[2]>>

\* write_output is over for one of the formats fs
WroteAs(fs) == stage = "end" /\ output_format \in fs

HasStatus(rec) ==
    /\ "Compliance Status" \in DOMAIN rec
    /\ rec["Compliance Status"] = "To Review"

\* C11: for the csv and excel formats write_output gives every record a
\* 'Compliance Status' field with the value 'To Review' before the record is
\* made into a row, whose first cell has the value; for json every record is
\* given empty 'Implemented' and 'Reasoning' fields and no such status.
C11_ComplianceStatus ==
    /\ WroteAs({"csv", "excel"}) =>
        \A n \in DOMAIN result :
            /\ HasStatus(result[n])
            /\ written.rows[4 + n][1] = "To Review"
    /\ WroteAs({"json"}) =>
        \A n \in DOMAIN result :
            /\ "Compliance Status" \notin DOMAIN written.data.recommendations[n]
            /\ written.data.recommendations[n]["Implemented"] = ""
            /\ written.data.recommendations[n]["Reasoning"] = ""

\* C11 as stated: for every output format, csv, excel and json, every record
\* has the field 'Compliance Status' with the value 'To Review' when it is
\* written.
C11_EveryFormat ==
    WroteAs({"csv", "excel", "json"}) => \A n \in DOMAIN result : HasStatus(result[n])

\* two records were written to a csv file
C11_Witness ==
    /\ WroteAs({"csv"})
    /\ Len(result) = 2
    /\ Len(written.rows) = 6
    /\ written.rows[6][1] = "To Review"

\* the lines of the first page; a page without text has none
FirstPageLines == IF pdf[1] = <<>> THEN <<>> ELSE splitlines(pdf[1][1])

\* the line begins with 'v', in either case, and has a hyphen in it
IsVersionLine(line) == StartsWith(lower(line), "v") /\ Contains(line, "-")

\* the number of lines before the first version line
TitleLineCount ==
    CHOOSE n \in 0..Len(FirstPageLines) :
        /\ \A j \in 1..n : ~IsVersionLine(FirstPageLines[j])
        /\ n < Len(FirstPageLines) => IsVersionLine(FirstPageLines[n + 1])

\* the title made of the lines before the first version line
ClaimedTitle == Join([j \in 1..TitleLineCount |-> strip(FirstPageLines[j])])

ClaimedVersion ==
    IF TitleLineCount < Len(FirstPageLines)
    THEN strip(FirstPageLines[TitleLineCount + 1])
    ELSE ""

\* the title in the written output
OutputTitle ==
    IF written.format = "json" THEN written.data.document_title ELSE written.rows[1][1]

\* the title and the version agree with the first page, the placeholder
\* standing for an empty title
MetadataAsClaimed ==
    /\ TitleOrDefault(title) = TitleOrDefault(ClaimedTitle)
    /\ version = ClaimedVersion
    /\ stage = "end" => OutputTitle = TitleOrDefault(ClaimedTitle)

\* C14: for every first page, one with empty or absent text included, a title
\* and a version are obtained: the title is made of the lines before the first
\* line that begins with 'v' and has a hyphen, the version is that line
\* trimmed, or empty without such a line, and the title in the output is
\* 'CIS Benchmark Document' whenever that title is empty.
C14_DocumentMetadata ==
    stage # "title" => (error # "AttributeError" /\ MetadataAsClaimed)

\* start_page names a page of the document
StartPageInRange == start_page >= 1 /\ start_page <= Len(pdf)

\* main has gone past its call of read_pdf, or has ended before it
PastReadPdf == stage \notin {"title", "read"}

\* C13: when start_page is less than 1 or greater than the number of pages,
\* the run fails with the ValueError of read_pdf before extract_recommendations
\* is called and before write_output writes anything; when start_page is in
\* range, no ValueError is raised.
C13_StartPageValidation ==
    PastReadPdf =>
        IF StartPageInRange
        THEN error # "ValueError"
        ELSE /\ stage = "failed"
             /\ error = "ValueError"
             /\ pc = "idle"
             /\ result = <<>>
             /\ written = NoOutput

====
